---- MODULE Spec2Model ----
(***************************************************************************)
(* Session lifecycle of VO_Sim: the session state machine                  *)
(* (session/state_machine.py), the JSONL event store (session/storage.py)  *)
(* and the session manager (session/manager.py) over one storage root.     *)
(*                                                                         *)
(* Persisted state: the session files and the active-session file.         *)
(* In-memory state: per SessionManager instance, _active_session_id and    *)
(* _state_machine.  Every action is one whole call of the Python code.     *)
(***************************************************************************)
EXTENDS Integers, Sequences, FiniteSets, TLC

\* ------------------------------------------------------------------ bounds

\* Number of session ids uuid4() hands out in a run.
MaxSessions == 2

\* EmitEvent / AppendEvent stop once a session file holds this many records.
MaxEvents == 2

\* A session file written to by hand holds at most this many lines.
MaxLines == 3

\* ------------------------------------------------------------- enumerations

IDLE == "idle"
PROBLEM_PRESENTED == "problem_presented"
EVALUATING == "evaluating"
AWAITING_ACTION == "awaiting_action"
DONE == "done"

SessionState == {IDLE, PROBLEM_PRESENTED, EVALUATING, AWAITING_ACTION, DONE}

SESSION_STARTED == "SESSION_STARTED"
CODE_SUBMITTED == "CODE_SUBMITTED"
EVAL_RESULT == "EVAL_RESULT"
HINT_REQUESTED == "HINT_REQUESTED"
HINT_GIVEN == "HINT_GIVEN"
AGENT_RESPONSE == "AGENT_RESPONSE"
SESSION_ENDED == "SESSION_ENDED"

EventType ==
    {SESSION_STARTED, CODE_SUBMITTED, EVAL_RESULT, HINT_REQUESTED,
     HINT_GIVEN, AGENT_RESPONSE, SESSION_ENDED}

\* Outcomes of a call.
OK == "ok"
NoActiveSessionError == "NoActiveSessionError"
SessionAlreadyActiveError == "SessionAlreadyActiveError"
InvalidTransitionError == "InvalidTransitionError"
\* self._state_machine is None while a session is active.
AttributeError == "AttributeError"
\* pydantic's ValidationError, raised by Event.model_validate_json.
ValidationError == "ValidationError"

\* ------------------------------------------------------------------ values

\* Python's None for _active_session_id; an absent current_session.txt.
None == 0
\* Python's None for _state_machine.
NoMachine == "no_machine"
\* The two SessionManager instances bound to the storage root.
Managers == {"A", "B"}

\* Identifiers produced by uuid4(), in the order they are produced.
Uuids == 1..MaxSessions

\* datetime.utcnow() readings.
Timestamps == {1}

VARIABLES
    files,          \* sessions/<id>.jsonl: existing file's id -> its lines
    pointerFile,    \* current_session.txt: None (absent) or the id written
    active,         \* manager -> _active_session_id
    machine,        \* manager -> _state_machine._current_state, or NoMachine
    nextUuid,       \* the next identifier uuid4() returns
    last            \* the last call and its outcome

vars == <<files, pointerFile, active, machine, nextUuid, last>>

\* ------------------------------------------------------------ state machine

\* _VALID_TRANSITIONS with "any state -> DONE" taken to include DONE itself.
VALID_TRANSITIONS_DoneToDone(current) ==
    CASE current = IDLE -> {PROBLEM_PRESENTED, DONE}
      [] current = PROBLEM_PRESENTED -> {EVALUATING, DONE}
      [] current = EVALUATING -> {AWAITING_ACTION, DONE}
      [] current = AWAITING_ACTION -> {EVALUATING, AWAITING_ACTION, DONE}
      [] current = DONE -> {DONE}
      [] OTHER -> {}

\* _VALID_TRANSITIONS with DONE left out of the entry for EVALUATING.
VALID_TRANSITIONS_NoEndWhileEvaluating(current) ==
    CASE current = IDLE -> {PROBLEM_PRESENTED, DONE}
      [] current = PROBLEM_PRESENTED -> {EVALUATING, DONE}
      [] current = EVALUATING -> {AWAITING_ACTION}
      [] current = AWAITING_ACTION -> {EVALUATING, AWAITING_ACTION, DONE}
      [] current = DONE -> {}
      [] OTHER -> {}

\* SessionStateMachine._VALID_TRANSITIONS: current state -> allowed next states.
VALID_TRANSITIONS(current) ==
    CASE current = IDLE -> {PROBLEM_PRESENTED, DONE}
      [] current = PROBLEM_PRESENTED -> {EVALUATING, DONE}
      [] current = EVALUATING -> {AWAITING_ACTION, DONE}
      [] current = AWAITING_ACTION -> {EVALUATING, AWAITING_ACTION, DONE}
      [] current = DONE -> {}
      [] OTHER -> {}

\* can_transition_to that refuses to stay in the current state.
can_transition_to_NoSelfLoop(current, next_state) ==
    next_state # current /\ next_state \in VALID_TRANSITIONS(current)

\* SessionStateMachine.can_transition_to on a machine in state current.
can_transition_to(current, next_state) ==
    next_state \in VALID_TRANSITIONS(current)

\* transition_to without its assignment to _current_state.
transition_to_NoAssign(current, next_state) ==
    IF ~can_transition_to(current, next_state)
    THEN [res |-> InvalidTransitionError, state |-> current]
    ELSE [res |-> OK, state |-> current]

\* transition_to that assigns _current_state before it validates.
transition_to_AssignFirst(current, next_state) ==
    IF ~can_transition_to(current, next_state)
    THEN [res |-> InvalidTransitionError, state |-> next_state]
    ELSE [res |-> OK, state |-> next_state]

\* SessionStateMachine.transition_to: the outcome and the state afterwards.
transition_to(current, next_state) ==
    IF ~can_transition_to(current, next_state)
    THEN [res |-> InvalidTransitionError, state |-> current]
    ELSE [res |-> OK, state |-> next_state]

\* SessionStateMachine.reset: the state afterwards.
\* reset that leaves a finished machine finished.
reset_UnlessDone(current) == IF current = DONE THEN DONE ELSE IDLE

reset(current) == IDLE

is_done(current) == current = DONE

\* can_submit_code that accepts every state but DONE.
can_submit_code_NotDone(current) == current # DONE

\* can_submit_code that accepts a first submission only.
can_submit_code_OnlyPresented(current) == current = PROBLEM_PRESENTED

can_submit_code(current) == current \in {PROBLEM_PRESENTED, AWAITING_ACTION}

\* can_request_hint that accepts the states can_submit_code accepts.
can_request_hint_LikeSubmit(current) ==
    current \in {PROBLEM_PRESENTED, AWAITING_ACTION}

can_request_hint(current) == current = AWAITING_ACTION

\* -------------------------------------------------------------- event store

\* Event(session_id=..., event_type=..., payload=...): timestamp is utcnow().
Event(session_id, timestamp, event_type, payload) ==
    [session_id |-> session_id, timestamp |-> timestamp,
     event_type |-> event_type, payload |-> payload]

\* Payload values are written as Python writes them.  A tuple and a list
\* with the same items are different Python values and the same JSON array.
PyTuple == "(1, 2)"
PyList == "[1, 2]"

\* The JSON text pydantic writes for a payload value of type Any: a tuple is
\* written as an array; str, int, bool, list and dict are written as they are.
to_json(value) == IF value = PyTuple THEN PyList ELSE value

\* Lines of a session file, without the newline: a record is the 4-tuple of
\* its fields; the other lines come from outside append_event.
BlankLine == <<>>
WhitespaceLine == <<" ">>
CorruptLine == <<"{\"session_id\": ">>

\* A line taken as it is read.
strip_Nothing(line) == line

\* str.strip() on a line read from the file.
strip(line) == IF line = WhitespaceLine THEN BlankLine ELSE line

\* event.model_dump_json(): one JSON object, the fields in declaration order.
\* The timestamp is written in ISO format with its microseconds, which loses
\* nothing.
model_dump_json(event) ==
    <<event.session_id, event.timestamp, event.event_type,
      [k \in DOMAIN event.payload |-> to_json(event.payload[k])]>>

\* Whether Event.model_validate_json accepts the line: it is a complete
\* record.
validates(line) == Len(line) = 4

\* model_validate_json that leaves the stored timestamp out and lets the
\* field default to the time of reading.
model_validate_json_DefaultTimestamp(line) ==
    IF ~validates(line)
    THEN [res |-> ValidationError, val |-> None]
    ELSE [res |-> OK,
          val |-> [session_id |-> line[1], timestamp |-> line[2] + 1,
                   event_type |-> line[3], payload |-> line[4]]]

\* Event.model_validate_json(line): the event, or ValidationError for a line
\* that is not a complete record.  The payload is the stored JSON object: an
\* array in it is read as a list.
model_validate_json(line) ==
    IF ~validates(line)
    THEN [res |-> ValidationError, val |-> None]
    ELSE [res |-> OK,
          val |-> [session_id |-> line[1], timestamp |-> line[2],
                   event_type |-> line[3], payload |-> line[4]]]

\* EventStore.session_exists.
session_exists(fs, session_id) == session_id \in DOMAIN fs

\* append_event opening the file with "w": the new line replaces the file.
append_event_Overwrite(fs, event) ==
    [id \in DOMAIN fs \cup {event.session_id} |->
        IF id = event.session_id THEN <<model_dump_json(event)>> ELSE fs[id]]

\* append_event that writes the new line at the start of the file.
append_event_AtStart(fs, event) ==
    LET sid == event.session_id
        old == IF session_exists(fs, sid) THEN fs[sid] ELSE <<>>
    IN [id \in DOMAIN fs \cup {sid} |->
            IF id = sid THEN <<model_dump_json(event)>> \o old ELSE fs[id]]

\* EventStore.append_event: open(..., "a") creates the file if absent.
append_event(fs, event) ==
    LET sid == event.session_id
        old == IF session_exists(fs, sid) THEN fs[sid] ELSE <<>>
    IN [id \in DOMAIN fs \cup {sid} |->
            IF id = sid THEN Append(old, model_dump_json(event)) ELSE fs[id]]

\* The lines of a session file as "for line in f" reads them.
Lines(fs, session_id) == IF session_exists(fs, session_id) THEN fs[session_id] ELSE <<>>

\* The loop of load_events that keeps every line it can parse and passes
\* over the others.
read_events_SkipInvalid(raw) ==
    LET lines == SelectSeq(raw,
                   LAMBDA line : strip(line) # BlankLine /\ validates(strip(line)))
    IN [res |-> OK,
        val |-> [i \in 1..Len(lines) |-> model_validate_json(strip(lines[i])).val]]

\* The loop of load_events over the lines of an open file: blank lines are
\* skipped; the first line that fails validation ends the call with the
\* ValidationError.
read_events(raw) ==
    LET lines == SelectSeq(raw, LAMBDA line : strip(line) # BlankLine)
    IN IF \E i \in 1..Len(lines) : ~validates(strip(lines[i]))
       THEN [res |-> ValidationError, val |-> <<>>]
       ELSE [res |-> OK,
             val |-> [i \in 1..Len(lines) |-> model_validate_json(strip(lines[i])).val]]

\* load_events that opens the file without asking whether it exists.
load_events_NoExistsCheck(fs, session_id) ==
    IF ~session_exists(fs, session_id)
    THEN [res |-> "FileNotFoundError", val |-> <<>>]
    ELSE read_events(fs[session_id])

\* EventStore.load_events: outcome and list returned.  A missing file gives
\* [].
load_events(fs, session_id) ==
    IF ~session_exists(fs, session_id)
    THEN [res |-> OK, val |-> <<>>]
    ELSE read_events(fs[session_id])

\* get_all_session_ids that globs for a suffix no session file has.
get_all_session_ids_WrongSuffix(fs) == {}

\* EventStore.get_all_session_ids.
get_all_session_ids(fs) == DOMAIN fs

\* delete_session that empties the file (open(..., "w")) instead of
\* unlinking it.
delete_session_Truncate(fs, session_id) ==
    [id \in DOMAIN fs \cup {session_id} |-> IF id = session_id THEN <<>> ELSE fs[id]]

\* delete_session that removes the sessions directory's files when the
\* target exists.
delete_session_All(fs, session_id) ==
    IF session_exists(fs, session_id) THEN <<>> ELSE fs

\* EventStore.delete_session.
delete_session(fs, session_id) ==
    IF session_exists(fs, session_id)
    THEN [id \in DOMAIN fs \ {session_id} |-> fs[id]]
    ELSE fs

\* get_event_count that counts the lines of the file.
get_event_count_CountLines(fs, session_id) ==
    [res |-> OK, val |-> Len(Lines(fs, session_id))]

\* EventStore.get_event_count: outcome and count returned.
get_event_count(fs, session_id) ==
    LET events == load_events(fs, session_id)
    IN IF events.res = OK
       THEN [res |-> OK, val |-> Len(events.val)]
       ELSE [res |-> events.res, val |-> None]

\* ---------------------------------------------------------- session manager

\* SessionStateMachine(): the default initial_state.
NewStateMachine == IDLE

\* SessionManager.has_active_session.
has_active_session(m) == active[m] # None

\* SessionManager.get_active_session_id: outcome and value returned.
get_active_session_id(m) ==
    IF ~has_active_session(m)
    THEN [res |-> NoActiveSessionError, val |-> None]
    ELSE [res |-> OK, val |-> active[m]]

\* SessionManager.get_current_state.
get_current_state(m) ==
    IF ~has_active_session(m)
    THEN [res |-> NoActiveSessionError, val |-> NoMachine]
    ELSE IF machine[m] = NoMachine
    THEN [res |-> AttributeError, val |-> NoMachine]
    ELSE [res |-> OK, val |-> machine[m]]

\* get_session_events that answers with an empty list when no session is active.
get_session_events_NoCheck(m) == load_events(files, active[m])

\* SessionManager.get_session_events.
get_session_events(m) ==
    IF ~has_active_session(m)
    THEN [res |-> NoActiveSessionError, val |-> <<>>]
    ELSE load_events(files, active[m])

\* SessionManager.get_state_machine: the live machine (its state).
get_state_machine(m) ==
    IF ~has_active_session(m)
    THEN [res |-> NoActiveSessionError, val |-> NoMachine]
    ELSE [res |-> OK, val |-> machine[m]]

\* _load_active_session without the check that the session file exists.
_load_active_session_NoVerify(fs, ptr) == ptr

\* _load_active_session with the check that the session file exists negated.
_load_active_session_Negated(fs, ptr) ==
    IF ptr # None /\ ~session_exists(fs, ptr) THEN ptr ELSE None

\* _load_active_session that never finds a session to restore.
_load_active_session_Never(fs, ptr) == None

\* SessionManager._load_active_session: the id in current_session.txt if the
\* file exists, is not empty and names an existing session file.
\* (strip() leaves a written uuid as it is.)
_load_active_session(fs, ptr) ==
    IF ptr # None /\ session_exists(fs, ptr) THEN ptr ELSE None

\* _save_active_session that writes nothing.
_save_active_session_NoWrite(ptr, session_id) == ptr

\* SessionManager._save_active_session: the file's content afterwards.
_save_active_session(ptr, session_id) == session_id

\* _clear_active_session that leaves the file.
_clear_active_session_Keep(ptr) == ptr

\* SessionManager._clear_active_session: the file is unlinked if it exists.
_clear_active_session(ptr) == None

\* _restore_state_machine that returns without making a machine.
_restore_state_machine_None(fs, session_id) == NoMachine

\* _restore_state_machine that makes a new machine in its default state.
_restore_state_machine_Fresh(fs, session_id) == NewStateMachine

\* SessionManager._restore_state_machine: the state of the restored machine.
_restore_state_machine(fs, session_id) == AWAITING_ACTION

\* The record kept of a call: which, on which manager, with which argument,
\* how it ended and the identifier it returned or reported.
Call(op, m, arg, res, val) ==
    [op |-> op, mgr |-> m, arg |-> arg, res |-> res, val |-> val]

\* __init__ that writes a SESSION_STARTED record for the session it restores.
Construct_LogsStart(m) ==
    LET sid == _load_active_session(files, pointerFile)
    IN /\ active' = [active EXCEPT ![m] = sid]
       /\ machine' = [machine EXCEPT ![m] =
              IF sid # None THEN _restore_state_machine(files, sid) ELSE NoMachine]
       /\ files' = IF sid # None
                   THEN append_event(files, Event(sid, 1, SESSION_STARTED,
                                                  [problem_id |-> "lru_cache"]))
                   ELSE files
       /\ last' = Call("init", m, "", OK, sid)
       /\ UNCHANGED <<pointerFile, nextUuid>>

\* SessionManager.__init__ over the storage root as it is now (a restart).
Construct(m) ==
    LET sid == _load_active_session(files, pointerFile)
    IN /\ active' = [active EXCEPT ![m] = sid]
       /\ machine' = [machine EXCEPT ![m] =
              IF sid # None THEN _restore_state_machine(files, sid) ELSE NoMachine]
       /\ last' = Call("init", m, "", OK, sid)
       /\ UNCHANGED <<files, pointerFile, nextUuid>>

\* create_session, lines 81-85: a session is active, the call is refused.
CreateSessionRefused(m) ==
    /\ last' = Call("create_session", m, "", SessionAlreadyActiveError, active[m])
    /\ UNCHANGED <<files, pointerFile, active, machine, nextUuid>>

\* create_session, lines 87-108: a new session is started.
CreateSessionStarted(m) ==
    /\ nextUuid \in Uuids
    /\ \E now \in Timestamps :
         LET session_id == nextUuid
             event == Event(session_id, now, SESSION_STARTED,
                            [problem_id |-> "lru_cache"])
             t == transition_to(NewStateMachine, PROBLEM_PRESENTED)
         IN /\ nextUuid' = nextUuid + 1
            /\ files' = append_event(files, event)
            /\ machine' = [machine EXCEPT ![m] = t.state]
            /\ IF t.res = OK
               THEN /\ active' = [active EXCEPT ![m] = session_id]
                    /\ pointerFile' = _save_active_session(pointerFile, session_id)
                    /\ last' = Call("create_session", m, "", OK, session_id)
               ELSE /\ last' = Call("create_session", m, "", t.res, None)
                    /\ UNCHANGED <<active, pointerFile>>

\* create_session that makes the new state machine before it looks for an
\* active session.
CreateSession_MachineFirst(m) ==
    IF has_active_session(m)
    THEN /\ last' = Call("create_session", m, "", SessionAlreadyActiveError, active[m])
         /\ machine' = [machine EXCEPT ![m] = NewStateMachine]
         /\ UNCHANGED <<files, pointerFile, active, nextUuid>>
    ELSE CreateSessionStarted(m)

\* create_session that does not look for an active session.
CreateSession_NoCheck(m) == CreateSessionStarted(m)

\* SessionManager.create_session.
CreateSession(m) ==
    IF has_active_session(m)
    THEN CreateSessionRefused(m)
    ELSE CreateSessionStarted(m)

\* end_session that moves the machine to DONE first and builds the
\* SESSION_ENDED record afterwards, from the state it then reads.
EndSession_TransitionFirst(m) ==
    IF ~has_active_session(m)
    THEN /\ last' = Call("end_session", m, "", NoActiveSessionError, None)
         /\ UNCHANGED <<files, pointerFile, active, machine, nextUuid>>
    ELSE IF machine[m] = NoMachine
    THEN /\ last' = Call("end_session", m, "", AttributeError, None)
         /\ UNCHANGED <<files, pointerFile, active, machine, nextUuid>>
    ELSE LET t == transition_to(machine[m], DONE)
         IN IF t.res # OK
            THEN /\ last' = Call("end_session", m, "", t.res, None)
                 /\ UNCHANGED <<files, pointerFile, active, machine, nextUuid>>
            ELSE \E now \in Timestamps :
                   /\ files' = append_event(files,
                                 Event(active[m], now, SESSION_ENDED,
                                       [final_state |-> t.state]))
                   /\ active' = [active EXCEPT ![m] = None]
                   /\ machine' = [machine EXCEPT ![m] = NoMachine]
                   /\ pointerFile' = _clear_active_session(pointerFile)
                   /\ last' = Call("end_session", m, "", OK, None)
                   /\ UNCHANGED nextUuid

\* SessionManager.end_session.  The SESSION_ENDED record is written before
\* the transition to DONE is attempted.  A call that ends the session is never
\* held back by MaxEvents; one that fails after its write is.
EndSession(m) ==
    IF ~has_active_session(m)
    THEN /\ last' = Call("end_session", m, "", NoActiveSessionError, None)
         /\ UNCHANGED <<files, pointerFile, active, machine, nextUuid>>
    ELSE IF machine[m] = NoMachine
    THEN /\ last' = Call("end_session", m, "", AttributeError, None)
         /\ UNCHANGED <<files, pointerFile, active, machine, nextUuid>>
    ELSE \E now \in Timestamps :
           LET event == Event(active[m], now, SESSION_ENDED,
                              [final_state |-> machine[m]])
               t == transition_to(machine[m], DONE)
           IN /\ t.res # OK => get_event_count(files, active[m]).val < MaxEvents
              /\ files' = append_event(files, event)
              /\ IF t.res = OK
                 THEN /\ active' = [active EXCEPT ![m] = None]
                      /\ machine' = [machine EXCEPT ![m] = NoMachine]
                      /\ pointerFile' = _clear_active_session(pointerFile)
                 ELSE /\ machine' = [machine EXCEPT ![m] = t.state]
                      /\ UNCHANGED <<active, pointerFile>>
              /\ last' = Call("end_session", m, "", t.res, None)
              /\ UNCHANGED nextUuid

\* transition_to that logs each state change as an event of its own.
TransitionTo_EmitsEvent(m, next_state) ==
    IF ~has_active_session(m)
    THEN /\ last' = Call("transition_to", m, next_state, NoActiveSessionError, None)
         /\ UNCHANGED <<files, pointerFile, active, machine, nextUuid>>
    ELSE IF machine[m] = NoMachine
    THEN /\ last' = Call("transition_to", m, next_state, AttributeError, None)
         /\ UNCHANGED <<files, pointerFile, active, machine, nextUuid>>
    ELSE LET t == transition_to(machine[m], next_state)
         IN /\ machine' = [machine EXCEPT ![m] = t.state]
            /\ IF t.res = OK
               THEN /\ get_event_count(files, active[m]).val < MaxEvents
                    /\ \E now \in Timestamps :
                         files' = append_event(files,
                                    Event(active[m], now, AGENT_RESPONSE,
                                          [state |-> next_state]))
               ELSE UNCHANGED files
            /\ last' = Call("transition_to", m, next_state, t.res, None)
            /\ UNCHANGED <<pointerFile, active, nextUuid>>

\* SessionManager.transition_to.
TransitionTo(m, next_state) ==
    IF ~has_active_session(m)
    THEN /\ last' = Call("transition_to", m, next_state, NoActiveSessionError, None)
         /\ UNCHANGED <<files, pointerFile, active, machine, nextUuid>>
    ELSE IF machine[m] = NoMachine
    THEN /\ last' = Call("transition_to", m, next_state, AttributeError, None)
         /\ UNCHANGED <<files, pointerFile, active, machine, nextUuid>>
    ELSE LET t == transition_to(machine[m], next_state)
         IN /\ machine' = [machine EXCEPT ![m] = t.state]
            /\ last' = Call("transition_to", m, next_state, t.res, None)
            /\ UNCHANGED <<files, pointerFile, active, nextUuid>>

\* The (event_type, payload) arguments emit_event is called with.
EmitArgs ==
    {<<CODE_SUBMITTED, [attempt |-> "1"]>>,
     <<SESSION_ENDED, [final_state |-> DONE]>>}

\* The (event_type, payload) a direct caller of the store appends.
StoreArgs == {<<CODE_SUBMITTED, [attempt |-> "1"]>>}

\* SessionManager.emit_event.
EmitEvent(m, event_type, payload) ==
    IF ~has_active_session(m)
    THEN /\ last' = Call("emit_event", m, event_type, NoActiveSessionError, None)
         /\ UNCHANGED <<files, pointerFile, active, machine, nextUuid>>
    ELSE /\ get_event_count(files, active[m]).val < MaxEvents
         /\ \E now \in Timestamps :
              files' = append_event(files, Event(active[m], now, event_type, payload))
         /\ last' = Call("emit_event", m, event_type, OK, None)
         /\ UNCHANGED <<pointerFile, active, machine, nextUuid>>

\* manager.get_state_machine().reset(): the live machine, reset by its holder.
ResetMachine(m) ==
    /\ has_active_session(m)
    /\ machine[m] # NoMachine
    /\ machine' = [machine EXCEPT ![m] = reset(machine[m])]
    /\ last' = Call("reset", m, "", OK, None)
    /\ UNCHANGED <<files, pointerFile, active, nextUuid>>

\* How a call ends when the process stops inside it.
ProcessStopped == "process_stopped"

\* create_session in a process that stops after the SESSION_STARTED record is
\* written (line 99) and before the pointer file is (line 106), followed by
\* the construction of a fresh manager over what is on disk.
CreateSessionCrashed(m) ==
    /\ ~has_active_session(m)
    /\ nextUuid \in Uuids
    /\ \E now \in Timestamps :
         LET event == Event(nextUuid, now, SESSION_STARTED,
                            [problem_id |-> "lru_cache"])
             sid == _load_active_session(append_event(files, event), pointerFile)
         IN /\ files' = append_event(files, event)
            /\ active' = [active EXCEPT ![m] = sid]
            /\ machine' = [machine EXCEPT ![m] =
                   IF sid # None THEN _restore_state_machine(files', sid)
                   ELSE NoMachine]
            /\ last' = Call("create_session", m, "", ProcessStopped, sid)
    /\ nextUuid' = nextUuid + 1
    /\ UNCHANGED pointerFile

\* end_session in a process that stops after the SESSION_ENDED record is
\* written (line 127) and before the pointer file is removed (line 135),
\* followed by the construction of a fresh manager over what is on disk.
EndSessionCrashed(m) ==
    /\ has_active_session(m)
    /\ machine[m] # NoMachine
    /\ get_event_count(files, active[m]).val < MaxEvents
    /\ \E now \in Timestamps :
         LET event == Event(active[m], now, SESSION_ENDED,
                            [final_state |-> machine[m]])
             sid == _load_active_session(append_event(files, event), pointerFile)
         IN /\ files' = append_event(files, event)
            /\ active' = [active EXCEPT ![m] = sid]
            /\ machine' = [machine EXCEPT ![m] =
                   IF sid # None THEN _restore_state_machine(files', sid)
                   ELSE NoMachine]
            /\ last' = Call("end_session", m, "", ProcessStopped, sid)
    /\ UNCHANGED <<pointerFile, nextUuid>>

\* ------------------------------------------------- direct use of the store

\* The session ids a direct caller of the store can write to: those handed
\* out so far (it cannot name a uuid4() of the future).
KnownIds == {id \in Uuids : id < nextUuid}

\* EventStore.append_event called directly.
AppendEvent(session_id, event_type, payload) ==
    /\ get_event_count(files, session_id).val < MaxEvents
    /\ Len(Lines(files, session_id)) < MaxLines
    /\ \E now \in Timestamps :
         files' = append_event(files, Event(session_id, now, event_type, payload))
    /\ last' = Call("append_event", "", event_type, OK, session_id)
    /\ UNCHANGED <<pointerFile, active, machine, nextUuid>>

\* EventStore.delete_session called directly.
DeleteSession(session_id) ==
    /\ files' = delete_session(files, session_id)
    /\ last' = Call("delete_session", "", "", OK, session_id)
    /\ UNCHANGED <<pointerFile, active, machine, nextUuid>>

\* The session ids the callers of a store on its own use.
LogIds == {1, 2}

\* The session file that is also written to by hand.
HandWrittenId == 1

\* The lines written by hand: an empty line, a line of spaces, and a record
\* cut short.
RawLines == {BlankLine, WhitespaceLine, CorruptLine}

\* The (event_type, payload) of the events appended to a store on its own:
\* a payload of JSON values and one that holds a tuple.
LogArgs ==
    {<<CODE_SUBMITTED, [attempt |-> "1"]>>,
     <<EVAL_RESULT, [tests_passed |-> PyTuple]>>}

\* A line put into a session file without append_event (an editor, a test
\* that writes the file itself, a write cut short).
WriteLine(session_id, line) ==
    /\ Len(Lines(files, session_id)) < MaxLines
    /\ files' = [id \in DOMAIN files \cup {session_id} |->
                    IF id = session_id
                    THEN Append(Lines(files, session_id), line)
                    ELSE files[id]]
    /\ last' = Call("write_line", "", "", OK, session_id)
    /\ UNCHANGED <<pointerFile, active, machine, nextUuid>>

\* What one write() call of append_event has put into the file when it is
\* only part of the way through the line: the text up to the middle of the
\* record, with no newline after it.
FirstPart(line) == SubSeq(line, 1, Len(line) \div 2)

\* The rest of the line, which the newline follows.
SecondPart(line) == SubSeq(line, (Len(line) \div 2) + 1, Len(line))

\* The files two unsynchronised writers of the same session file can leave
\* behind: append_event takes no lock and does not write the line in one
\* step, so the two lines land whole in either order, or one writer's line
\* lands in the middle of the other's.
RacedLines(line1, line2) ==
    {<<line1, line2>>,
     <<line2, line1>>,
     <<FirstPart(line1) \o line2, SecondPart(line1)>>,
     <<FirstPart(line2) \o line1, SecondPart(line2)>>}

\* EventStore.append_event called by two writers at the same time on the
\* same session file.
AppendEventRaced(session_id, args1, args2) ==
    /\ Len(Lines(files, session_id)) + 2 <= MaxLines
    /\ \E now \in Timestamps :
         \E written \in RacedLines(
                model_dump_json(Event(session_id, now, args1[1], args1[2])),
                model_dump_json(Event(session_id, now, args2[1], args2[2]))) :
            files' = [id \in DOMAIN files \cup {session_id} |->
                         IF id = session_id
                         THEN Lines(files, session_id) \o written
                         ELSE files[id]]
    /\ last' = Call("append_event", "", args1[1], OK, session_id)
    /\ UNCHANGED <<pointerFile, active, machine, nextUuid>>

\* EventStore.load_events called by a reader while a writer is inside
\* append_event on the same session file: the reader finds the file as it
\* was before the append, with the first part of the new line at its end, or
\* with the whole line.
LoadEventsRaced(session_id, event_type, payload) ==
    /\ get_event_count(files, session_id).val < MaxEvents
    /\ Len(Lines(files, session_id)) < MaxLines
    /\ \E now \in Timestamps :
         LET event == Event(session_id, now, event_type, payload)
             seen == {load_events(files, session_id),
                      read_events(Append(Lines(files, session_id),
                                         FirstPart(model_dump_json(event)))),
                      load_events(append_event(files, event), session_id)}
         IN /\ files' = append_event(files, event)
            /\ \E r \in seen :
                 last' = Call("load_events", "", event_type, r.res, session_id)
    /\ UNCHANGED <<pointerFile, active, machine, nextUuid>>

\* ----------------------------------------------------------- specification

\* An empty storage root; both managers constructed over it.
Init ==
    /\ files = <<>>
    /\ pointerFile = None
    /\ active = [m \in Managers |-> _load_active_session(<<>>, None)]
    /\ machine = [m \in Managers |-> NoMachine]
    /\ nextUuid = 1
    /\ last = Call("init", "A", "", OK, None)

\* One process at a time on the storage root: manager A, restarted at will,
\* and the holder of its live machine.
Next ==
    \/ Construct("A")
    \/ CreateSession("A")
    \/ EndSession("A")
    \/ \E s \in SessionState : TransitionTo("A", s)
    \/ \E a \in EmitArgs : EmitEvent("A", a[1], a[2])
    \/ ResetMachine("A")

Spec == Init /\ [][Next]_vars

\* The target manager A's caller asks for while the store is also used
\* directly: a submission.
StoreTargets == {EVALUATING}

\* Manager A, restarted at will, next to direct callers of the store.
NextStore ==
    \/ Construct("A")
    \/ CreateSession("A")
    \/ EndSession("A")
    \/ \E s \in StoreTargets : TransitionTo("A", s)
    \/ \E a \in StoreArgs : EmitEvent("A", a[1], a[2])
    \/ \E id \in KnownIds, a \in StoreArgs : AppendEvent(id, a[1], a[2])
    \/ \E id \in Uuids : DeleteSession(id)

SpecStore == Init /\ [][NextStore]_vars

\* An EventStore on its own: its callers append and delete, and one of its
\* files is also written to by hand.
NextLog ==
    \/ \E id \in LogIds, a \in LogArgs : AppendEvent(id, a[1], a[2])
    \/ \E id \in LogIds : DeleteSession(id)
    \/ \E line \in RawLines : WriteLine(HandWrittenId, line)

SpecLog == Init /\ [][NextLog]_vars

\* The call of end_session that ends the session.
EndSessionOk(m) == EndSession(m) /\ last'.res = OK

\* Manager operations only, on manager A without a restart; B is a second
\* instance constructed over the same storage root that only looks.
NextManager ==
    \/ CreateSession("A")
    \/ EndSession("A")
    \/ \E s \in SessionState : TransitionTo("A", s)
    \/ \E a \in EmitArgs : EmitEvent("A", a[1], a[2])
    \/ Construct("B")

\* A caller that wants to leave a session calls end_session: a call that
\* would end the session is not put off forever.
SpecManager == Init /\ [][NextManager]_vars /\ WF_vars(EndSessionOk("A"))

\* An EventStore whose session files are written to and read by callers that
\* run at the same time.
NextWriters ==
    \/ \E id \in LogIds, a \in LogArgs : AppendEvent(id, a[1], a[2])
    \/ \E id \in LogIds, a1 \in LogArgs, a2 \in LogArgs : AppendEventRaced(id, a1, a2)
    \/ \E id \in LogIds, a \in LogArgs : LoadEventsRaced(id, a[1], a[2])
    \/ \E id \in LogIds : DeleteSession(id)

SpecWriters == Init /\ [][NextWriters]_vars

\* Two managers on the same storage root and pointer file, each constructed
\* once at the start and neither restarted; a call runs to its end before the
\* next one starts.
NextTwoManagers ==
    \/ \E m \in Managers : CreateSession(m)
    \/ \E m \in Managers : EndSession(m)
    \/ \E m \in Managers, a \in StoreArgs : EmitEvent(m, a[1], a[2])

SpecTwoManagers == Init /\ [][NextTwoManagers]_vars

\* Manager A in a process that can stop inside create_session and
\* end_session, a fresh manager being constructed afterwards.
NextCrash ==
    \/ Construct("A")
    \/ CreateSession("A")
    \/ EndSession("A")
    \/ \E s \in StoreTargets : TransitionTo("A", s)
    \/ \E a \in StoreArgs : EmitEvent("A", a[1], a[2])
    \/ CreateSessionCrashed("A")
    \/ EndSessionCrashed("A")

SpecCrash == Init /\ [][NextCrash]_vars

\* Manager A used through its own operations only and restarted at will: the
\* live machine is moved by SessionManager.transition_to alone.
NextOperations ==
    \/ Construct("A")
    \/ CreateSession("A")
    \/ EndSession("A")
    \/ \E s \in SessionState : TransitionTo("A", s)
    \/ \E a \in EmitArgs : EmitEvent("A", a[1], a[2])

SpecOperations == Init /\ [][NextOperations]_vars

\* ------------------------------------------------------------------ claims

\* C1: create_session on a manager with no active session succeeds; right
\* after it get_current_state() is PROBLEM_PRESENTED, get_active_session_id()
\* is the identifier returned, and get_session_events() is one event, of type
\* SESSION_STARTED.
C1_CreateSessionStartsSession ==
    [][\A m \in Managers :
        (last'.op = "create_session" /\ last'.mgr = m /\ ~has_active_session(m))
        => /\ last'.res = OK
           /\ get_current_state(m)' = [res |-> OK, val |-> PROBLEM_PRESENTED]
           /\ get_active_session_id(m)' = [res |-> OK, val |-> last'.val]
           /\ get_session_events(m)'.res = OK
           /\ Len(get_session_events(m)'.val) = 1
           /\ get_session_events(m)'.val[1].event_type = SESSION_STARTED
           /\ get_session_events(m)'.val[1].session_id = last'.val]_vars

\* A second session has been created after the first was ended.
C1_Witness ==
    /\ last.op = "create_session"
    /\ last.res = OK
    /\ last.val = 2
    /\ has_active_session("A")

\* C2 (as claimed): end_session with an active session, whatever the state of
\* its machine, appends exactly one SESSION_ENDED record to that session's
\* log, the machine goes to DONE and has_active_session() is false afterwards;
\* with no active session it fails with NoActiveSessionError.
C2_EndSessionAlwaysEnds ==
    [][\A m \in Managers :
        (last'.op = "end_session" /\ last'.mgr = m)
        => IF has_active_session(m)
           THEN LET sid == active[m]
                    before == load_events(files, sid).val
                    after == load_events(files', sid).val
                IN /\ Len(after) = Len(before) + 1
                   /\ SubSeq(after, 1, Len(before)) = before
                   /\ after[Len(after)].event_type = SESSION_ENDED
                   /\ last'.res = OK
                   /\ transition_to(machine[m], DONE).state = DONE
                   /\ ~has_active_session(m)'
           ELSE last'.res = NoActiveSessionError]_vars

\* C3 (as claimed): a session can always be abandoned: from every state with
\* an active session the manager's operations lead to a state with none.
\* Under SpecManager a call of end_session that would end the session is
\* eventually made, so the claim is that an active session leads to none.
C3_SessionCanAlwaysBeAbandoned ==
    has_active_session("A") ~> ~has_active_session("A")

\* C4: create_session while a session is active fails with
\* SessionAlreadyActiveError reporting the active identifier, and changes
\* neither the active identifier, the machine, the pointer file nor any log.
C4_RefusedCreateChangesNothing ==
    [][\A m \in Managers :
        (last'.op = "create_session" /\ last'.mgr = m /\ has_active_session(m))
        => /\ last'.res = SessionAlreadyActiveError
           /\ last'.val = active[m]
           /\ active' = active
           /\ machine' = machine
           /\ pointerFile' = pointerFile
           /\ files' = files]_vars

\* create_session has been refused while the session was in EVALUATING with
\* a record emitted.
C4_Witness ==
    /\ last.op = "create_session"
    /\ last.res = SessionAlreadyActiveError
    /\ last.val = active["A"]
    /\ machine["A"] = EVALUATING
    /\ get_event_count(files, active["A"]).val = 2

\* C5 (as claimed): a manager constructed over the storage root while A has
\* an active session in state s reports get_current_state() = s.
C5_RestartRecoversState ==
    [][(last'.op = "init" /\ last'.mgr = "B" /\ has_active_session("A"))
        => get_current_state("B")' = get_current_state("A")]_vars

\* C6: after A has created a session, and after any transition_to and
\* emit_event calls on A, a manager B constructed over the same storage root
\* has an active session, with A's identifier.
C6_ActiveIdSurvivesRestart ==
    [][(last'.op = "init" /\ last'.mgr = "B" /\ has_active_session("A"))
        => /\ has_active_session("B")'
           /\ get_active_session_id("B")' = get_active_session_id("A")]_vars

\* B has been constructed while A's second session was in EVALUATING with a
\* record emitted.
C6_Witness ==
    /\ last.op = "init"
    /\ last.mgr = "B"
    /\ active["B"] = 2
    /\ active["A"] = 2
    /\ machine["A"] = EVALUATING
    /\ get_event_count(files, 2).val = 2

\* C7: a successful end_session clears the pointer in memory and on disk
\* and discards the machine: a manager constructed over the storage root then
\* has no active session, and create_session succeeds on the manager that
\* ended the session and on a manager constructed with no active session.
C7_EndSessionClearsPointer ==
    \A m \in Managers :
        /\ (last.op = "end_session" /\ last.res = OK /\ last.mgr = m)
            => /\ ~has_active_session(m)
               /\ get_state_machine(m).val = NoMachine
               /\ pointerFile = None
               /\ \A f \in Managers :
                    /\ ENABLED (Construct(f) /\ active'[f] = None)
                    /\ ~ENABLED (Construct(f) /\ active'[f] # None)
               /\ nextUuid \in Uuids
                    => ENABLED (CreateSession(m) /\ last'.res = OK)
        /\ (last.op = "init" /\ last.mgr = m /\ ~has_active_session(m)
                /\ nextUuid \in Uuids)
            => ENABLED (CreateSession(m) /\ last'.res = OK)

\* The first session has been ended by end_session, with three records in
\* its log, and another can still be created.
C7_Witness ==
    /\ last.op = "end_session"
    /\ last.res = OK
    /\ nextUuid = 2
    /\ get_event_count(files, 1).val = 3

\* The pointer file names no session, or one whose session file is absent.
PointerDangling == pointerFile = None \/ ~session_exists(files, pointerFile)

\* C8: a manager constructed when the pointer file is absent or names an
\* identifier with no session file has no active session: every session
\* operation on it fails with NoActiveSessionError and create_session
\* succeeds.
C8_DanglingPointerIsNoSession ==
    [][\A m \in Managers :
        (last.op = "init" /\ last.mgr = m /\ PointerDangling /\ last'.mgr = m)
        => /\ ~has_active_session(m)
           /\ get_active_session_id(m).res = NoActiveSessionError
           /\ get_current_state(m).res = NoActiveSessionError
           /\ get_session_events(m).res = NoActiveSessionError
           /\ get_state_machine(m).res = NoActiveSessionError
           /\ last'.op \in {"end_session", "transition_to", "emit_event"}
                => last'.res = NoActiveSessionError
           /\ last'.op = "create_session" => last'.res = OK]_vars

\* A manager has been constructed over a pointer file that names a session
\* whose file was deleted.
C8_Witness ==
    /\ last.op = "init"
    /\ pointerFile # None
    /\ ~session_exists(files, pointerFile)
    /\ ~has_active_session("A")

\* Every identifier held as the active session, on disk or in memory, has a
\* log with at least one event.
PointerHasLog ==
    /\ pointerFile # None => get_event_count(files, pointerFile).val > 0
    /\ \A m \in Managers :
         has_active_session(m) => get_event_count(files, active[m]).val > 0

\* C9 (as claimed): in every state reachable by manager operations and by
\* append_event and delete_session on the store, an identifier held by the
\* active-session pointer has a non-empty log.
C9_PointerAlwaysHasLog == PointerHasLog

\* C9 (amended): the pointer's identifier has a non-empty log initially and
\* after every operation other than delete_session if it had before; and the
\* identifier a manager holds right after its construction has one.
C9_PointerHasLogUnlessDeleted ==
    [][/\ (/\ last'.op # "delete_session"
           /\ <<files, pointerFile, active>>' # <<files, pointerFile, active>>
           /\ PointerHasLog)
          => PointerHasLog'
       /\ \A m \in Managers :
            (last'.op = "init" /\ last'.mgr = m /\ has_active_session(m)')
            => get_event_count(files', active'[m]).val > 0]_vars

\* The pointer holds the second session, whose log was appended to directly,
\* while the first session's log has been deleted.
C9_Witness ==
    /\ last.op = "append_event"
    /\ pointerFile = 2
    /\ active["A"] = 2
    /\ ~session_exists(files, 1)
    /\ get_event_count(files, 2).val = 2

\* The transition table as the specification gives it.
AllowedNext(s) ==
    CASE s = IDLE -> {PROBLEM_PRESENTED, DONE}
      [] s = PROBLEM_PRESENTED -> {EVALUATING, DONE}
      [] s = EVALUATING -> {AWAITING_ACTION, DONE}
      [] s = AWAITING_ACTION -> {EVALUATING, AWAITING_ACTION, DONE}
      [] s = DONE -> {}

\* C10: for every state s and every target t outside the allowed set of s,
\* transition_to(t) from s fails with InvalidTransitionError and the current
\* state is still s.
C10_InvalidTransitionKeepsState ==
    [][\A m \in Managers :
        (/\ last'.op = "transition_to"
         /\ last'.mgr = m
         /\ has_active_session(m)
         /\ last'.arg \notin AllowedNext(machine[m]))
        => /\ last'.res = InvalidTransitionError
           /\ get_current_state(m)' = get_current_state(m)]_vars

\* transition_to(EVALUATING) has been refused on a machine in IDLE.
C10_Witness ==
    /\ last.op = "transition_to"
    /\ last.arg = EVALUATING
    /\ last.res = InvalidTransitionError
    /\ machine["A"] = IDLE

\* C11: DONE is terminal: on a machine in DONE every transition_to(t), DONE
\* included, fails with InvalidTransitionError and the state stays DONE.
C11_DoneIsTerminal ==
    [][\A m \in Managers :
        (/\ last'.op = "transition_to"
         /\ last'.mgr = m
         /\ has_active_session(m)
         /\ machine[m] = DONE)
        => /\ last'.res = InvalidTransitionError
           /\ get_current_state(m)' = [res |-> OK, val |-> DONE]]_vars

\* transition_to(DONE) has been refused on a machine in DONE.
C11_Witness ==
    /\ last.op = "transition_to"
    /\ last.arg = DONE
    /\ last.res = InvalidTransitionError
    /\ machine["A"] = DONE

\* C12: from each of IDLE, PROBLEM_PRESENTED, EVALUATING and AWAITING_ACTION
\* transition_to(DONE) succeeds and leaves the machine in DONE.
C12_DoneFromEveryOtherState ==
    [][\A m \in Managers :
        (/\ last'.op = "transition_to"
         /\ last'.mgr = m
         /\ last'.arg = DONE
         /\ has_active_session(m)
         /\ machine[m] \in {IDLE, PROBLEM_PRESENTED, EVALUATING, AWAITING_ACTION})
        => /\ last'.res = OK
           /\ get_current_state(m)' = [res |-> OK, val |-> DONE]]_vars

\* transition_to(DONE) has succeeded on the session's machine.
C12_Witness ==
    /\ last.op = "transition_to"
    /\ last.arg = DONE
    /\ last.res = OK
    /\ machine["A"] = DONE

\* C13: for each of the 25 pairs (current, next), can_transition_to(next) is
\* true exactly when next is in the table's set for current;
\* transition_to(next) succeeds and sets the state to next exactly when
\* can_transition_to(next) is true, and otherwise leaves the state.
C13_CanTransitionMatchesTable ==
    [][\A m \in Managers :
        (last'.op = "transition_to" /\ last'.mgr = m /\ has_active_session(m))
        => LET can == can_transition_to(machine[m], last'.arg)
           IN /\ can <=> last'.arg \in AllowedNext(machine[m])
              /\ last'.res = OK <=> can
              /\ last'.res # OK => last'.res = InvalidTransitionError
              /\ machine'[m] = IF can THEN last'.arg ELSE machine[m]]_vars

\* transition_to(AWAITING_ACTION) has succeeded on the session's machine.
C13_Witness ==
    /\ last.op = "transition_to"
    /\ last.arg = AWAITING_ACTION
    /\ last.res = OK
    /\ machine["A"] = AWAITING_ACTION

\* C14: the capability checks keep the caller off the exception path: where
\* can_submit_code() is true, transition_to(EVALUATING) called next succeeds,
\* and where can_request_hint() is true, transition_to(AWAITING_ACTION)
\* called next succeeds.
C14_CapabilityImpliesTransition ==
    [][\A m \in Managers :
        (/\ last'.op = "transition_to"
         /\ last'.mgr = m
         /\ has_active_session(m)
         /\ \/ last'.arg = EVALUATING /\ can_submit_code(machine[m])
            \/ last'.arg = AWAITING_ACTION /\ can_request_hint(machine[m]))
        => /\ last'.res = OK
           /\ get_current_state(m)' = [res |-> OK, val |-> last'.arg]]_vars

\* transition_to(EVALUATING) has succeeded, which it does only from the two
\* states where can_submit_code() is true.
C14_Witness ==
    /\ last.op = "transition_to"
    /\ last.arg = EVALUATING
    /\ last.res = OK
    /\ machine["A"] = EVALUATING

\* C15: can_submit_code() is true exactly when the machine is in
\* PROBLEM_PRESENTED or AWAITING_ACTION, and false in IDLE, EVALUATING, DONE.
C15_CanSubmitCode ==
    \A m \in Managers :
        has_active_session(m) =>
            LET sm == get_state_machine(m).val
            IN /\ sm \in {PROBLEM_PRESENTED, AWAITING_ACTION} => can_submit_code(sm)
               /\ sm \in {IDLE, EVALUATING, DONE} => ~can_submit_code(sm)

\* A session whose machine is in PROBLEM_PRESENTED accepts a submission.
C15_Witness ==
    /\ has_active_session("A")
    /\ machine["A"] = PROBLEM_PRESENTED
    /\ can_submit_code(get_state_machine("A").val)

\* C16: can_request_hint() is true exactly when the machine is in
\* AWAITING_ACTION.
C16_CanRequestHint ==
    \A m \in Managers :
        has_active_session(m) =>
            LET sm == get_state_machine(m).val
            IN can_request_hint(sm) <=> sm = AWAITING_ACTION

\* A session whose machine is in AWAITING_ACTION accepts a hint request.
C16_Witness ==
    /\ has_active_session("A")
    /\ machine["A"] = AWAITING_ACTION
    /\ can_request_hint(get_state_machine("A").val)

\* The event types of a session's log, in file order.
EventTypesOf(session_id) ==
    [i \in 1..get_event_count(files, session_id).val |->
        load_events(files, session_id).val[i].event_type]

C18_NoSessionCallsFail ==
    [][\A m \in Managers :
        ~has_active_session(m) =>
          /\ get_active_session_id(m).res = NoActiveSessionError
          /\ get_current_state(m).res = NoActiveSessionError
          /\ get_session_events(m).res = NoActiveSessionError
          /\ get_state_machine(m).res = NoActiveSessionError
          /\ (/\ last'.mgr = m
              /\ last'.op \in {"end_session", "transition_to", "emit_event"})
             => /\ last'.res = NoActiveSessionError
                /\ files' = files
                /\ pointerFile' = pointerFile
                /\ active' = active
                /\ machine' = machine]_vars

\* emit_event has been refused after a session was created and ended: a log
\* exists, no session is active.
C18_Witness ==
    /\ last.op = "emit_event"
    /\ last.res = NoActiveSessionError
    /\ ~has_active_session("A")
    /\ session_exists(files, 1)
    /\ pointerFile = None

\* C19: emit_event(type, payload) with a session active appends exactly one
\* event, stamped with the active session id and carrying the given type and
\* payload, at the end of the active log; the machine state, the pointer and
\* every other log are unchanged.
C19_EmitEventAppendsOne ==
    [][\A m \in Managers, a \in EmitArgs :
        (/\ last'.op = "emit_event"
         /\ last'.mgr = m
         /\ last'.arg = a[1]
         /\ has_active_session(m))
        => /\ last'.res = OK
           /\ \E now \in Timestamps :
                load_events(files', active[m]).val
                  = Append(load_events(files, active[m]).val,
                           Event(active[m], now, a[1], a[2]))
           /\ get_all_session_ids(files')
                = get_all_session_ids(files) \cup {active[m]}
           /\ \A id \in get_all_session_ids(files) \ {active[m]} :
                load_events(files', id).val = load_events(files, id).val
           /\ machine' = machine
           /\ active' = active
           /\ pointerFile' = pointerFile]_vars

\* emit_event(CODE_SUBMITTED, ...) has added the second record of the active
\* session's log, after SESSION_STARTED.
C19_Witness ==
    /\ last.op = "emit_event"
    /\ last.res = OK
    /\ has_active_session("A")
    /\ get_session_events("A").val
         = <<Event(active["A"], 1, SESSION_STARTED, [problem_id |-> "lru_cache"]),
             Event(active["A"], 1, CODE_SUBMITTED, [attempt |-> "1"])>>

\* C20: the SESSION_ENDED event end_session writes carries as its payload the
\* name of the state the machine was in when end_session was called, before
\* the transition to DONE, for every state the active machine can be in.
C20_SessionEndedCarriesFinalState ==
    [][\A m \in Managers, s \in SessionState :
        (/\ last'.op = "end_session"
         /\ last'.mgr = m
         /\ has_active_session(m)
         /\ get_current_state(m) = [res |-> OK, val |-> s])
        => LET log == load_events(files', active[m]).val
           IN /\ Len(log) = get_event_count(files, active[m]).val + 1
              /\ log[Len(log)].session_id = active[m]
              /\ log[Len(log)].event_type = SESSION_ENDED
              /\ log[Len(log)].payload = [final_state |-> s]]_vars

\* A session has been ended while its machine was in EVALUATING, and its
\* last record says so.
C20_Witness ==
    /\ last.op = "end_session"
    /\ last.res = OK
    /\ get_event_count(files, 1).val > 0
    /\ load_events(files, 1).val[get_event_count(files, 1).val].payload
         = [final_state |-> EVALUATING]

\* A payload whose values are JSON values as they stand.
JsonPayload(payload) == \A k \in DOMAIN payload : payload[k] # PyTuple

C22_LoadEventsInAppendOrder ==
    [][\A id \in LogIds :
        LET before == load_events(files, id)
            after == load_events(files', id)
        IN /\ ~session_exists(files, id) => before = [res |-> OK, val |-> <<>>]
           /\ before.res = OK =>
                \A i \in 1..Len(before.val) : before.val[i].session_id = id
           /\ (last'.op = "append_event" /\ before.res = OK) =>
                /\ after.res = OK
                /\ IF last'.val = id
                   THEN /\ Len(after.val) = Len(before.val) + 1
                        /\ SubSeq(after.val, 1, Len(before.val)) = before.val
                        /\ after.val[Len(after.val)].session_id = id
                        /\ after.val[Len(after.val)].event_type = last'.arg
                   ELSE after.val = before.val]_vars

\* Two events of different types have been appended to one log and are read
\* back in the order they were appended in, while the other id has no log.
C22_Witness ==
    /\ last.op = "append_event"
    /\ load_events(files, 2).res = OK
    /\ Len(load_events(files, 2).val) = 2
    /\ load_events(files, 2).val[1].event_type = EVAL_RESULT
    /\ load_events(files, 2).val[2].event_type = CODE_SUBMITTED
    /\ load_events(files, 1) = [res |-> OK, val |-> <<>>]
    /\ ~session_exists(files, 1)

\* C23: logs are append-only: over every step of create_session,
\* transition_to, emit_event, end_session, a restart and append_event (every
\* step but delete_session) each session's log before the step is a prefix of
\* its log after it, so an earlier log is a prefix of every later one; and
\* after end_session the ended session's history, ending with SESSION_ENDED,
\* is in the store.
C23_LogsAreAppendOnly ==
    [][last'.op # "delete_session" =>
        /\ \A id \in Uuids :
             LET before == load_events(files, id).val
                 after == load_events(files', id).val
             IN Lines(files', id) # Lines(files, id) =>
                  /\ session_exists(files', id)
                  /\ Len(before) < Len(after)
                  /\ SubSeq(after, 1, Len(before)) = before
        /\ \A m \in Managers :
             (/\ last'.op = "end_session"
              /\ last'.mgr = m
              /\ last'.res = OK)
             => LET history == load_events(files', active[m]).val
                IN /\ Len(history) > 0
                   /\ history[Len(history)].event_type = SESSION_ENDED]_vars

\* A second session has been created after the first was ended, and the
\* first one's three records, SESSION_ENDED last, are still in the store.
C23_Witness ==
    /\ last.op = "create_session"
    /\ last.val = 2
    /\ get_event_count(files, 1).val = 3
    /\ load_events(files, 1).val[1].event_type = SESSION_STARTED
    /\ load_events(files, 1).val[3].event_type = SESSION_ENDED

\* C24: delete_session on an id that has no log does not fail and leaves the
\* set of session ids and every log's contents as they were; so a second
\* delete_session of the same id changes nothing the first left.
C24_DeleteIsIdempotent ==
    [][\A id \in LogIds :
        (last'.op = "delete_session" /\ last'.val = id)
        => /\ last'.res = OK
           /\ ~session_exists(files, id) =>
                /\ get_all_session_ids(files') = get_all_session_ids(files)
                /\ \A other \in LogIds :
                     /\ session_exists(files', other) = session_exists(files, other)
                     /\ load_events(files', other) = load_events(files, other)
                     /\ Lines(files', other) = Lines(files, other)
           /\ delete_session(files', id) = files']_vars

\* delete_session has been called on an id that has no log while the other
\* id holds a full hand-written file.
C24_Witness ==
    /\ last.op = "delete_session"
    /\ last.val = 2
    /\ ~session_exists(files, 2)
    /\ Len(Lines(files, 1)) = MaxLines

\* C25: delete_session(id) removes the session's whole log and nothing else:
\* afterwards session_exists(id) is false and load_events(id) is empty, and
\* the log of every other id is unchanged.
C25_DeleteRemovesOnlyTarget ==
    [][\A id \in LogIds :
        (last'.op = "delete_session" /\ last'.val = id)
        => /\ ~session_exists(files', id)
           /\ load_events(files', id) = [res |-> OK, val |-> <<>>]
           /\ get_all_session_ids(files') = get_all_session_ids(files) \ {id}
           /\ \A other \in LogIds \ {id} :
                /\ session_exists(files', other) = session_exists(files, other)
                /\ Lines(files', other) = Lines(files, other)
                /\ load_events(files', other) = load_events(files, other)]_vars

\* One log has been deleted and the other, two records long, is still there.
C25_Witness ==
    /\ last.op = "delete_session"
    /\ last.val = 1
    /\ ~session_exists(files, 1)
    /\ get_event_count(files, 2) = [res |-> OK, val |-> 2]

\* C26: in every store state get_event_count(id) is the length of
\* load_events(id) (and fails where load_events fails), and it is 0 for an id
\* with no log.
C26_EventCountIsLoadLength ==
    \A id \in LogIds :
        LET count == get_event_count(files, id)
            events == load_events(files, id)
        IN /\ count.res = events.res
           /\ events.res = OK => count.val = Len(events.val)
           /\ ~session_exists(files, id) => count = [res |-> OK, val |-> 0]

\* A file of three lines, one of them blank, counts two events, and the
\* other id has no log.
C26_Witness ==
    /\ Len(Lines(files, 1)) = 3
    /\ BlankLine \in {Lines(files, 1)[i] : i \in 1..3}
    /\ get_event_count(files, 1) = [res |-> OK, val |-> 2]
    /\ ~session_exists(files, 2)
    /\ get_event_count(files, 2).val = 0

\* The lines of a session file that are not blank.
NonBlankLines(session_id) ==
    SelectSeq(Lines(files, session_id),
              LAMBDA line : line \notin {BlankLine, WhitespaceLine})

\* C27: a line that is not blank and is not a valid Event record makes the
\* whole load_events call fail instead of returning the other events;
\* load_events never returns a list that leaves out a stored non-blank line.
C27_CorruptLineFailsLoad ==
    \A id \in LogIds :
        LET events == load_events(files, id)
        IN /\ (\E i \in 1..Len(Lines(files, id)) : Lines(files, id)[i] = CorruptLine)
                => /\ events.res = ValidationError
                   /\ events.val = <<>>
           /\ events.res = OK => Len(events.val) = Len(NonBlankLines(id))

\* A record cut short stands between two whole records, and the load fails.
C27_Witness ==
    /\ Len(Lines(files, 1)) = 3
    /\ Len(Lines(files, 1)[1]) = 4
    /\ Lines(files, 1)[2] = CorruptLine
    /\ Len(Lines(files, 1)[3]) = 4
    /\ load_events(files, 1).res = ValidationError

\* C28: blank lines in a stored log are skipped on read: load_events returns
\* exactly the events of the non-blank records, in order, wherever the blank
\* lines stand, and a blank line added to a file changes nothing in what
\* load_events returns.
C28_BlankLinesAreSkipped ==
    [][\A id \in LogIds :
        LET events == load_events(files, id)
            records == NonBlankLines(id)
        IN /\ CorruptLine \notin {records[i] : i \in 1..Len(records)}
                => /\ events.res = OK
                   /\ Len(events.val) = Len(records)
                   /\ \A i \in 1..Len(records) :
                        events.val[i] = Event(records[i][1], records[i][2],
                                              records[i][3], records[i][4])
           /\ (/\ last'.op = "write_line"
               /\ last'.val = id
               /\ \E line \in {BlankLine, WhitespaceLine} :
                    Lines(files', id) = Append(Lines(files, id), line))
              => load_events(files', id) = events]_vars

\* An empty line stands between two records, and the two events are read.
C28_Witness ==
    /\ Len(Lines(files, 1)) = 3
    /\ Len(Lines(files, 1)[1]) = 4
    /\ Lines(files, 1)[2] = BlankLine
    /\ Len(Lines(files, 1)[3]) = 4
    /\ load_events(files, 1).res = OK
    /\ Len(load_events(files, 1).val) = 2

\* C29: in every store state get_all_session_ids() is exactly the set of ids
\* for which session_exists is true: the ids that have received an
\* append_event (directly or through create_session, emit_event and
\* end_session) since their last delete_session.  It is empty for a fresh
\* store.
C29_AllSessionIdsAreExistingLogs ==
    [][/\ get_all_session_ids(files) = {id \in Uuids : session_exists(files, id)}
       /\ nextUuid = 1 => get_all_session_ids(files) = {}
       /\ last'.op = "delete_session"
            => get_all_session_ids(files') = get_all_session_ids(files) \ {last'.val}
       /\ last'.op = "append_event"
            => get_all_session_ids(files') = get_all_session_ids(files) \cup {last'.val}
       /\ \A m \in Managers :
            (last'.mgr = m /\ last'.op \notin {"delete_session", "append_event"})
            => get_all_session_ids(files')
                 = get_all_session_ids(files)
                     \cup (IF files' # files
                           THEN {IF last'.op = "create_session"
                                 THEN active'[m] ELSE active[m]}
                           ELSE {})]_vars

\* The first session's log has been deleted and the second session's log is
\* the only one listed.
C29_Witness ==
    /\ last.op = "delete_session"
    /\ last.val = 1
    /\ get_all_session_ids(files) = {2}
    /\ session_exists(files, 2)
    /\ ~session_exists(files, 1)

\* C30: reset() returns the machine to IDLE from every state, DONE included,
\* and never fails.
C30_ResetReturnsToIdle ==
    [][\A m \in Managers :
        /\ (last'.op = "reset" /\ last'.mgr = m)
             => /\ last'.res = OK
                /\ get_current_state(m)' = [res |-> OK, val |-> IDLE]
        /\ \A s \in SessionState :
             (has_active_session(m) /\ machine[m] = s)
             => /\ reset(s) = IDLE
                /\ m = "A" => ENABLED ResetMachine(m)]_vars

\* reset() has been called on the live machine, which is in IDLE and can go
\* on to PROBLEM_PRESENTED.
C30_Witness ==
    /\ last.op = "reset"
    /\ last.res = OK
    /\ get_current_state("A") = [res |-> OK, val |-> IDLE]
    /\ can_transition_to(machine["A"], PROBLEM_PRESENTED)

\* C31: writers do not interleave partial records: with two writers appending
\* to the same log at the same time, and with a reader loading while an
\* append is in progress, every line of every log is one complete serialized
\* event (or blank) and every load a reader makes finds only such lines.
C31_NoPartialRecord ==
    /\ \A id \in DOMAIN files : \A i \in 1..Len(files[id]) :
          \/ strip(files[id][i]) = BlankLine
          \/ validates(strip(files[id][i]))
    /\ last.op = "load_events" => last.res = OK

\* C32: every manager operation that ends in a domain error
\* (NoActiveSessionError, SessionAlreadyActiveError, InvalidTransitionError,
\* the one raised inside end_session included) leaves the session files, the
\* pointer file, the manager's session id and its machine as they were.
C32_DomainErrorChangesNothing ==
    [][(/\ last'.mgr \in Managers
        /\ last'.res \in {NoActiveSessionError, SessionAlreadyActiveError,
                          InvalidTransitionError})
       => UNCHANGED <<files, pointerFile, active, machine>>]_vars

\* C33: in every session log written through one manager (create_session,
\* transition_to, emit_event, end_session, no crash) SESSION_ENDED occurs at
\* most once and, when it occurs, it is the last event.
C33_SessionEndedOnceAndLast ==
    \A id \in get_all_session_ids(files) :
        LET events == load_events(files, id).val
        IN \A i \in 1..Len(events) :
              events[i].event_type = SESSION_ENDED => i = Len(events)

\* The session logs that hold SESSION_STARTED and no SESSION_ENDED.
OpenLogs ==
    {id \in get_all_session_ids(files) :
        LET events == load_events(files, id).val
        IN /\ \E i \in 1..Len(events) : events[i].event_type = SESSION_STARTED
           /\ \A i \in 1..Len(events) : events[i].event_type # SESSION_ENDED}

\* C34: one manager keeps at most one session active: after any sequence of
\* its operations and restarts at most one session log holds SESSION_STARTED
\* without SESSION_ENDED, and when there is one it is the session the pointer
\* names.
C34_AtMostOneOpenLog ==
    /\ Cardinality(OpenLogs) <= 1
    /\ OpenLogs # {} => OpenLogs = {pointerFile}

\* The first session has been ended and the second is active after a
\* restart: its log is the only open one and the pointer names it.
C34_Witness ==
    /\ last.op = "init"
    /\ last.val = 2
    /\ OpenLogs = {2}
    /\ pointerFile = 2
    /\ SESSION_ENDED = load_events(files, 1).val[2].event_type

\* C35 (as claimed): after construction and after every manager operation
\* returns, the pointer file is absent exactly when has_active_session() is
\* False, and otherwise holds the identifier get_active_session_id() returns.
C35_PointerFileAgrees ==
    [][\A m \in Managers :
        last'.mgr = m
        => /\ pointerFile' = None <=> ~has_active_session(m)'
           /\ has_active_session(m)'
                => get_active_session_id(m)' = [res |-> OK, val |-> pointerFile']]_vars

\* C35 (amended): after construction and after every manager operation
\* returns, a manager with an active session finds its identifier in the
\* pointer file, so an absent pointer file means no active session; right
\* after construction the manager has no active session exactly when the
\* pointer file is absent or names a session with no file, and the pointer
\* file that names such a session is left as it is.
C35_PointerFileAgreesUnlessDangling ==
    [][\A m \in Managers :
        last'.mgr = m
        => /\ has_active_session(m)'
                => get_active_session_id(m)' = [res |-> OK, val |-> pointerFile']
           /\ pointerFile' = None => ~has_active_session(m)'
           /\ last'.op = "init"
                => /\ ~has_active_session(m)' <=> PointerDangling'
                   /\ pointerFile' = pointerFile]_vars

\* A manager constructed over a pointer file that names a deleted session has
\* answered a call with NoActiveSessionError, and the pointer file still holds
\* the identifier.
C35_Witness ==
    /\ last.mgr = "A"
    /\ last.res = NoActiveSessionError
    /\ ~has_active_session("A")
    /\ pointerFile = 1
    /\ ~session_exists(files, 1)

\* C36: with two managers on the same storage root and pointer file, whose
\* calls do not overlap, at most one session is active: when both have an
\* active session it is the same one, create_session on one is refused with
\* SessionAlreadyActiveError while the other has an active session, and a log
\* that holds SESSION_ENDED is not appended to.
C36_TwoManagersOneSession ==
    [][/\ (has_active_session("A")' /\ has_active_session("B")')
            => active'["A"] = active'["B"]
       /\ \A m \in Managers, other \in Managers :
            (/\ m # other
             /\ has_active_session(other)
             /\ last'.op = "create_session"
             /\ last'.mgr = m)
            => last'.res = SessionAlreadyActiveError
       /\ \A id \in get_all_session_ids(files) :
            (\E i \in 1..Len(load_events(files, id).val) :
                load_events(files, id).val[i].event_type = SESSION_ENDED)
            => Lines(files', id) = Lines(files, id)]_vars

\* C37: create_session and end_session are crash-consistent: when the process
\* stops between two of their writes to disk and a fresh manager is
\* constructed, every log with SESSION_STARTED and no SESSION_ENDED is the
\* session the fresh manager reports active, and the log of the session it
\* reports active holds no SESSION_ENDED.
C37_CrashConsistent ==
    \A m \in Managers :
        (last.res = ProcessStopped /\ last.mgr = m)
        => /\ \A id \in OpenLogs : has_active_session(m) /\ active[m] = id
           /\ has_active_session(m)
                => \A i \in 1..Len(load_events(files, active[m]).val) :
                      load_events(files, active[m]).val[i].event_type # SESSION_ENDED

\* C38: every session log created through a manager starts with
\* SESSION_STARTED and holds it exactly once, after any sequence of
\* create_session, transition_to, emit_event of other types, end_session and
\* restarts.
C38_StartedFirstAndOnce ==
    \A id \in get_all_session_ids(files) :
        LET events == load_events(files, id).val
        IN /\ Len(events) >= 1
           /\ \A i \in 1..Len(events) :
                 events[i].event_type = SESSION_STARTED <=> i = 1

\* The first session has been ended after an event was emitted in it, and
\* its log is SESSION_STARTED, the event, SESSION_ENDED.
C38_Witness ==
    /\ last.op = "end_session"
    /\ last.res = OK
    /\ nextUuid = 2
    /\ EventTypesOf(1) = <<SESSION_STARTED, CODE_SUBMITTED, SESSION_ENDED>>

\* C39: a manager with an active session holds a state machine: after
\* construction (a restore included) and after any sequence of manager
\* operations get_current_state and get_state_machine answer with the live
\* machine, and no call has failed for want of one: calls fail only with
\* NoActiveSessionError, SessionAlreadyActiveError or InvalidTransitionError.
C39_ActiveSessionHasMachine ==
    /\ last.res \in {OK, NoActiveSessionError, SessionAlreadyActiveError,
                     InvalidTransitionError}
    /\ \A m \in Managers :
         has_active_session(m)
         => /\ get_current_state(m).res = OK
            /\ get_current_state(m).val \in SessionState
            /\ get_state_machine(m) = [res |-> OK, val |-> get_current_state(m).val]

\* The manager has been restarted while a session was active, and it holds
\* the restored machine.
C39_Witness ==
    /\ last.op = "init"
    /\ last.val = 1
    /\ has_active_session("A")
    /\ get_state_machine("A") = [res |-> OK, val |-> AWAITING_ACTION]

\* C40: under any sequence of create_session, SessionManager.transition_to,
\* emit_event, end_session and restarts, get_current_state() of an active
\* session is never IDLE, and a session that is not in PROBLEM_PRESENTED does
\* not enter it again.
C40_NeverIdleNoReentry ==
    [][\A m \in Managers :
        /\ has_active_session(m)' => get_current_state(m)'.val # IDLE
        /\ (/\ has_active_session(m)
            /\ get_current_state(m).val # PROBLEM_PRESENTED
            /\ has_active_session(m)'
            /\ get_active_session_id(m)' = get_active_session_id(m))
           => get_current_state(m)'.val # PROBLEM_PRESENTED]_vars

\* The session has left PROBLEM_PRESENTED and a call asking to go back to it
\* has been refused.
C40_Witness ==
    /\ last.op = "transition_to"
    /\ last.arg = PROBLEM_PRESENTED
    /\ last.res = InvalidTransitionError
    /\ get_current_state("A") = [res |-> OK, val |-> AWAITING_ACTION]

====
